---------------------------- MODULE Spec2Model ----------------------------
(***************************************************************************)
(* Model of the contacts assistant: validated fields (Phone, Birthday),    *)
(* the contact Record, the AddressBook with its upcoming-birthday query,   *)
(* the command handlers and the dispatcher's command loop.                 *)
(*                                                                         *)
(* A Python str that the code reads or splits (an input line, a name, a    *)
(* phone, a date text) is the sequence of its characters, each a           *)
(* one-character string: "add" is <<"a", "d", "d">>.  The fixed messages   *)
(* the handlers return are kept as TLA+ strings.                           *)
(* An operation that can raise returns a record whose field raised is ""   *)
(* on a normal return and the exception's class name otherwise.            *)
(***************************************************************************)
EXTENDS Integers, Sequences, FiniteSets, TLC

VARIABLES
    rec,        \* the Record under direct use (SpecRecord)
    call,       \* the last library call made and how it ended
    book,       \* the AddressBook: records in insertion order of their keys
    today,      \* the date datetime.today() returns
    upcoming,   \* what the last get_upcoming_birthdays call returned
    pc,         \* the command loop: "input", "stopped" or "crashed"
    line,       \* the tokens of the input line last read by the loop
    out         \* what the loop printed for that line

vars == <<rec, call, book, today, upcoming, pc, line, out>>

(***************************************************************************)
(* Bounds of the model.                                                    *)
(***************************************************************************)
\* Calendar years the clock sweeps in SpecBook: FirstYear .. FirstYear+NumYears-1.
FirstYear == 2023
NumYears == 2
\* Days a console session may last (Spec).
MaxSessionDays == 1
\* Records add_faked_records seeds the book with (the program passes 10).
SeedCount == 2

None == <<>>

(***************************************************************************)
(* Characters and numbers.                                                 *)
(***************************************************************************)
Digits == {"0", "1", "2", "3", "4", "5", "6", "7", "8", "9"}

DigitVal(c) ==
    CASE c = "0" -> 0 [] c = "1" -> 1 [] c = "2" -> 2 [] c = "3" -> 3
      [] c = "4" -> 4 [] c = "5" -> 5 [] c = "6" -> 6 [] c = "7" -> 7
      [] c = "8" -> 8 [] c = "9" -> 9

DigitChar(n) ==
    CASE n = 0 -> "0" [] n = 1 -> "1" [] n = 2 -> "2" [] n = 3 -> "3"
      [] n = 4 -> "4" [] n = 5 -> "5" [] n = 6 -> "6" [] n = 7 -> "7"
      [] n = 8 -> "8" [] n = 9 -> "9"

AllDigits(s) == \A i \in 1..Len(s) : s[i] \in Digits

\* The pieces of s between the occurrences of the character sep.
RECURSIVE SplitOn(_, _)
SplitOn(s, sep) ==
    LET at == {i \in 1..Len(s) : s[i] = sep} IN
    IF at = {} THEN <<s>>
    ELSE LET i == CHOOSE k \in at : \A j \in at : k <= j IN
         <<SubSeq(s, 1, i - 1)>> \o SplitOn(SubSeq(s, i + 1, Len(s)), sep)

\* str.split(): the maximal runs of characters that are not whitespace.
NonEmpty(piece) == Len(piece) > 0
Split(s) == SelectSeq(SplitOn(s, " "), NonEmpty)

\* str.lower(), on the letters the inputs use.
LowerChar(c) ==
    CASE c = "A" -> "a" [] c = "C" -> "c" [] c = "D" -> "d" [] c = "E" -> "e"
      [] c = "I" -> "i" [] c = "L" -> "l" [] c = "O" -> "o" [] c = "S" -> "s"
      [] c = "T" -> "t" [] c = "X" -> "x" [] OTHER -> c

Lower(s) == [i \in 1..Len(s) |-> LowerChar(s[i])]

RECURSIVE NumVal(_)
NumVal(s) ==
    IF Len(s) = 0 THEN 0
    ELSE 10 * NumVal(SubSeq(s, 1, Len(s) - 1)) + DigitVal(s[Len(s)])

\* n written with at least `width` digits, zero-filled (%02d, %04d).
RECURSIVE ZeroFill(_, _)
ZeroFill(n, width) ==
    IF width <= 1 /\ n < 10 THEN <<DigitChar(n)>>
    ELSE Append(ZeroFill(n \div 10, width - 1), DigitChar(n % 10))

(***************************************************************************)
(* The calendar of datetime.date.                                          *)
(***************************************************************************)
IsLeap(y) == (y % 4 = 0) /\ ((y % 100 # 0) \/ (y % 400 = 0))

DaysInMonth(y, m) ==
    CASE m \in {1, 3, 5, 7, 8, 10, 12} -> 31
      [] m \in {4, 6, 9, 11} -> 30
      [] m = 2 -> IF IsLeap(y) THEN 29 ELSE 28

ValidDate(y, m, d) ==
    /\ y \in 1..9999
    /\ m \in 1..12
    /\ d \in 1..DaysInMonth(y, m)

MkDate(y, m, d) == [year |-> y, month |-> m, day |-> d]

RECURSIVE DaysBeforeMonth(_, _)
DaysBeforeMonth(y, m) ==
    IF m = 1 THEN 0 ELSE DaysBeforeMonth(y, m - 1) + DaysInMonth(y, m - 1)

DaysBeforeYear(y) ==
    (y - 1) * 365 + ((y - 1) \div 4) - ((y - 1) \div 100) + ((y - 1) \div 400)

\* date.toordinal(): 1 for 01.01.0001
ToOrdinal(dt) ==
    DaysBeforeYear(dt.year) + DaysBeforeMonth(dt.year, dt.month) + dt.day

\* date.weekday(): Monday is 0, Sunday is 6
Weekday(dt) == (ToOrdinal(dt) + 6) % 7

\* (a - b).days
DaysDiff(a, b) == ToOrdinal(a) - ToOrdinal(b)

NextDay(dt) ==
    IF dt.day < DaysInMonth(dt.year, dt.month)
        THEN MkDate(dt.year, dt.month, dt.day + 1)
    ELSE IF dt.month < 12 THEN MkDate(dt.year, dt.month + 1, 1)
    ELSE MkDate(dt.year + 1, 1, 1)

\* date + timedelta(days=n), n >= 0
RECURSIVE AddDays(_, _)
AddDays(dt, n) == IF n = 0 THEN dt ELSE AddDays(NextDay(dt), n - 1)

(***************************************************************************)
(* datetime.strptime / strftime with Birthday.DATE_FORMAT = "%d.%m.%Y".    *)
(***************************************************************************)
\* %d matches 1 or 2 digits worth 1..31, %m 1 or 2 digits worth 1..12, %Y
\* exactly 4 digits; the date must then exist (ValueError otherwise).
Strptime(text) ==
    LET f == SplitOn(text, ".") IN
    IF /\ Len(f) = 3
       /\ \A i \in 1..3 : AllDigits(f[i])
       /\ Len(f[1]) \in {1, 2} /\ NumVal(f[1]) \in 1..31
       /\ Len(f[2]) \in {1, 2} /\ NumVal(f[2]) \in 1..12
       /\ Len(f[3]) = 4
       /\ ValidDate(NumVal(f[3]), NumVal(f[2]), NumVal(f[1]))
    THEN [raised |-> "",
          value |-> MkDate(NumVal(f[3]), NumVal(f[2]), NumVal(f[1]))]
    ELSE [raised |-> "ValueError", value |-> MkDate(0, 0, 0)]

\* Zero-filled day and month, the year in 4 digits (years from 1000 on).
Strftime(dt) ==
    ZeroFill(dt.day, 2) \o <<".">> \o ZeroFill(dt.month, 2) \o <<".">>
        \o ZeroFill(dt.year, 4)

\* datetime.replace(year=y): ValueError when the day does not exist in y.
ReplaceYear(dt, y) ==
    IF ValidDate(y, dt.month, dt.day)
    THEN [raised |-> "", value |-> MkDate(y, dt.month, dt.day)]
    ELSE [raised |-> "ValueError", value |-> MkDate(0, 0, 0)]

(***************************************************************************)
(* contacts/fields.py                                                      *)
(***************************************************************************)
\* re.fullmatch(r"^\d{10}$", value)
PhoneMatches(value) == Len(value) = 10 /\ AllDigits(value)

\* Mutant of PhoneSetValue: the value is stored before it is validated.
PhoneSetValue_StoreFirst(stored, value) ==
    IF ~PhoneMatches(value)
    THEN [raised |-> "ValidationError", value |-> value]
    ELSE [raised |-> "", value |-> value]

\* Phone.value setter on a field that holds `stored`: the new stored value.
PhoneSetValue(stored, value) ==
    IF ~PhoneMatches(value)
    THEN [raised |-> "ValidationError", value |-> stored]
    ELSE [raised |-> "", value |-> value]

\* Birthday.value setter (and Birthday.__init__, which only calls it).
BirthdaySetValue(stored, value) ==
    LET parsed == Strptime(value) IN
    IF parsed.raised # ""
    THEN [raised |-> "ValidationError", value |-> stored]
    ELSE [raised |-> "", value |-> <<parsed.value>>]

\* Birthday.__str__
BirthdayStr(b) == Strftime(b)

(***************************************************************************)
(* contacts/address_book.py: Record                                        *)
(***************************************************************************)
\* list.remove of the entry at index i
RemoveAt(s, i) == SubSeq(s, 1, i - 1) \o SubSeq(s, i + 1, Len(s))

\* Record.__init__
NewRecord(name) == [name |-> name, phones |-> <<>>, birthday |-> None]

\* Record.birthday_str: None, or <<the formatted text>>
birthday_str(r) ==
    IF r.birthday = None THEN None ELSE <<BirthdayStr(r.birthday[1])>>

\* Record.find_phone: the first entry whose value is `phone` (its index).
find_phone(r, phone) ==
    LET hits == {i \in 1..Len(r.phones) : r.phones[i] = phone} IN
    IF hits = {}
    THEN [raised |-> "ValueError", index |-> 0]
    ELSE [raised |-> "", index |-> CHOOSE i \in hits : \A j \in hits : i <= j]

\* Record.phone_exists
phone_exists(r, phone) == find_phone(r, phone).raised = ""

\* Mutant of add_phone: the search for an existing entry is left out.
add_phone_NoSearch(r, phone) ==
    LET made == PhoneSetValue(<<>>, phone) IN
    IF made.raised # ""
    THEN [raised |-> made.raised, rec |-> r]
    ELSE [raised |-> "", rec |-> [r EXCEPT !.phones = Append(@, made.value)]]

\* Record.add_phone
add_phone(r, phone) ==
    IF find_phone(r, phone).raised = "ValueError"
    THEN LET made == PhoneSetValue(<<>>, phone) IN
         IF made.raised # ""
         THEN [raised |-> made.raised, rec |-> r]
         ELSE [raised |-> "",
               rec |-> [r EXCEPT !.phones = Append(@, made.value)]]
    ELSE [raised |-> "ValueError", rec |-> r]

\* Record.remove_phone
remove_phone(r, phone) ==
    LET found == find_phone(r, phone) IN
    IF found.raised # ""
    THEN [raised |-> found.raised, rec |-> r]
    ELSE [raised |-> "",
          rec |-> [r EXCEPT !.phones = RemoveAt(@, found.index)]]

\* Mutant of edit_phone: the old entry is removed and the new one appended.
edit_phone_Reappend(r, old_phone, new_phone) ==
    IF phone_exists(r, new_phone)
    THEN [raised |-> "ValueError", rec |-> r]
    ELSE LET found == find_phone(r, old_phone) IN
         IF found.raised # ""
         THEN [raised |-> found.raised, rec |-> r]
         ELSE LET set == PhoneSetValue(r.phones[found.index], new_phone) IN
              IF set.raised # ""
              THEN [raised |-> set.raised, rec |-> r]
              ELSE [raised |-> "",
                    rec |-> [r EXCEPT !.phones =
                        Append(RemoveAt(@, found.index), set.value)]]

\* Record.edit_phone
edit_phone(r, old_phone, new_phone) ==
    IF phone_exists(r, new_phone)
    THEN [raised |-> "ValueError", rec |-> r]
    ELSE LET found == find_phone(r, old_phone) IN
         IF found.raised # ""
         THEN [raised |-> found.raised, rec |-> r]
         ELSE LET set == PhoneSetValue(r.phones[found.index], new_phone) IN
              [raised |-> set.raised,
               rec |-> [r EXCEPT !.phones[found.index] = set.value]]

\* Record.add_birthday
add_birthday(r, birthday) ==
    LET made == BirthdaySetValue(None, birthday) IN
    IF made.raised # ""
    THEN [raised |-> made.raised, rec |-> r]
    ELSE [raised |-> "", rec |-> [r EXCEPT !.birthday = made.value]]

(***************************************************************************)
(* contacts/address_book.py: AddressBook (a UserDict keyed by name; the    *)
(* sequence keeps the dict's insertion order)                              *)
(***************************************************************************)
KeyIndex(b, name) ==
    LET hits == {i \in 1..Len(b) : b[i].name = name} IN
    IF hits = {} THEN 0 ELSE CHOOSE i \in hits : TRUE

\* AddressBook.exists
exists(b, name) == KeyIndex(b, name) # 0

\* AddressBook.add_record: self.data[record.name] = record
add_record(b, record) ==
    IF exists(b, record.name)
    THEN [b EXCEPT ![KeyIndex(b, record.name)] = record]
    ELSE Append(b, record)

\* AddressBook.find: self.data[name]
find(b, name) ==
    IF exists(b, name)
    THEN [raised |-> "", index |-> KeyIndex(b, name)]
    ELSE [raised |-> "KeyError", index |-> 0]

\* AddressBook.delete: del self.data[name]
delete(b, name) ==
    IF exists(b, name)
    THEN [raised |-> "", book |-> RemoveAt(b, KeyIndex(b, name))]
    ELSE [raised |-> "KeyError", book |-> b]

\* birthday_days_difference <= 7 and birthday_days_difference > -1
InNextSevenDays(birthday_days_difference) ==
    birthday_days_difference <= 7 /\ birthday_days_difference > -1

\* Mutant of ShiftWeekend: the shift is 6 - weekday instead of 7 - weekday.
ShiftWeekend_OneShort(congratulation_date) ==
    IF Weekday(congratulation_date) > 4
    THEN AddDays(congratulation_date, 6 - Weekday(congratulation_date))
    ELSE congratulation_date

\* Saturday and Sunday move to the next Monday.
ShiftWeekend(congratulation_date) ==
    IF Weekday(congratulation_date) > 4
    THEN AddDays(congratulation_date, 7 - Weekday(congratulation_date))
    ELSE congratulation_date

\* The body of the loop over users, from user i on; acc is upcoming_birthdays.
RECURSIVE UpcomingFrom(_, _, _, _)
UpcomingFrom(users, i, date_today, acc) ==
    IF i > Len(users) THEN [raised |-> "", list |-> acc]
    ELSE
    LET user == users[i]
        birthday == birthday_str(user)
    IN
    IF birthday = None THEN UpcomingFrom(users, i + 1, date_today, acc)
    ELSE
    LET parsed == Strptime(birthday[1]) IN
    IF parsed.raised # "" THEN [raised |-> parsed.raised, list |-> <<>>]
    ELSE
    LET replaced == ReplaceYear(parsed.value, date_today.year) IN
    IF replaced.raised # "" THEN [raised |-> replaced.raised, list |-> <<>>]
    ELSE
    LET congratulation_date == replaced.value
        birthday_days_difference == DaysDiff(congratulation_date, date_today)
    IN
    IF ~InNextSevenDays(birthday_days_difference)
    THEN UpcomingFrom(users, i + 1, date_today, acc)
    ELSE UpcomingFrom(users, i + 1, date_today,
            Append(acc,
                [name |-> user.name,
                 actual_date |-> birthday[1],
                 congratulation_date |->
                     Strftime(ShiftWeekend(congratulation_date))]))

\* AddressBook.get_upcoming_birthdays
get_upcoming_birthdays(b, date_today) == UpcomingFrom(b, 1, date_today, <<>>)

(***************************************************************************)
(* contacts/utils.py                                                       *)
(***************************************************************************)
\* The loop of add_faked_records from record i on: draws[i] is what faker and
\* randint give for record i: a name, a 10-digit phone and None or
\* <<a date text>>.
RECURSIVE FakedFrom(_, _, _, _)
FakedFrom(b, count, draws, i) ==
    IF i > count THEN b
    ELSE
    LET d == draws[i]
        withPhone == add_phone(NewRecord(d.name), d.phone).rec
        made == IF d.date = None THEN withPhone
                ELSE add_birthday(withPhone, d.date[1]).rec
    IN FakedFrom(add_record(b, made), count, draws, i + 1)

\* add_faked_records(book, count)
add_faked_records(b, count, draws) == FakedFrom(b, count, draws, 1)

(***************************************************************************)
(* contacts_assistance_bot/command_funcs.py: a handler returns the message *)
(* (msg names the text, data holds the values formatted into it) and the   *)
(* book as it leaves it.                                                   *)
(***************************************************************************)
Return(msg, data, b) == [raised |-> "", msg |-> msg, data |-> data, book |-> b]
Raise(exc, b) == [raised |-> exc, msg |-> "", data |-> <<>>, book |-> b]

RECURSIVE JoinWith(_, _)
JoinWith(parts, sep) ==
    IF Len(parts) = 0 THEN <<>>
    ELSE IF Len(parts) = 1 THEN parts[1]
    ELSE parts[1] \o sep \o JoinWith(Tail(parts), sep)

\* Record.phones_str
phones_str(r) == JoinWith(r.phones, <<";", " ">>)

\* Record.__str__
RecordStr(r) ==
    [name |-> r.name,
     birthday |-> IF birthday_str(r) = None THEN <<"n", "o", "t", " ", "s", "e", "t">>
                  ELSE birthday_str(r)[1],
     phones |-> phones_str(r)]

hello(args, b) == Return("Hello! How can I assist you today?", <<>>, b)

\* Mutant of add_contact: the check that the contact already has the phone
\* is left out.
add_contact_NoPhoneCheck(args, b) ==
    LET name == args[1]
        phone == args[2]
    IN
    IF ~exists(b, name)
    THEN LET added == add_phone(NewRecord(name), phone) IN
         IF added.raised # "" THEN Raise(added.raised, b)
         ELSE Return("A new contact is added.", <<>>, add_record(b, added.rec))
    ELSE LET i == find(b, name).index
             added == add_phone(b[i], phone)
         IN
         IF added.raised # ""
         THEN Raise(added.raised, [b EXCEPT ![i] = added.rec])
         ELSE Return("The phone is added to the specified contact.", <<>>,
                     [b EXCEPT ![i] = added.rec])

\* Mutant of add_contact: the new record is put into the book before its
\* phone is added.
add_contact_RecordFirst(args, b) ==
    LET name == args[1]
        phone == args[2]
    IN
    IF ~exists(b, name)
    THEN LET added == add_phone(NewRecord(name), phone) IN
         IF added.raised # ""
         THEN Raise(added.raised, add_record(b, added.rec))
         ELSE Return("A new contact is added.", <<>>, add_record(b, added.rec))
    ELSE LET i == find(b, name).index IN
         IF phone_exists(b[i], phone)
         THEN Return("The phone number already exists for this contact.",
                     <<>>, b)
         ELSE LET added == add_phone(b[i], phone) IN
              IF added.raised # ""
              THEN Raise(added.raised, [b EXCEPT ![i] = added.rec])
              ELSE Return("The phone is added to the specified contact.",
                          <<>>, [b EXCEPT ![i] = added.rec])

add_contact(args, b) ==
    LET name == args[1]
        phone == args[2]
    IN
    IF ~exists(b, name)
    THEN LET added == add_phone(NewRecord(name), phone) IN
         IF added.raised # "" THEN Raise(added.raised, b)
         ELSE Return("A new contact is added.", <<>>, add_record(b, added.rec))
    ELSE LET i == find(b, name).index IN
         IF phone_exists(b[i], phone)
         THEN Return("The phone number already exists for this contact.",
                     <<>>, b)
         ELSE LET added == add_phone(b[i], phone) IN
              IF added.raised # ""
              THEN Raise(added.raised, [b EXCEPT ![i] = added.rec])
              ELSE Return("The phone is added to the specified contact.",
                          <<>>, [b EXCEPT ![i] = added.rec])

get_all(args, b) ==
    Return("all", [i \in 1..Len(b) |-> RecordStr(b[i])], b)

show_phone(args, b) ==
    LET name == args[1] IN
    IF ~exists(b, name) THEN Return("Contact not found.", <<>>, b)
    ELSE Return("phones", <<phones_str(b[find(b, name).index])>>, b)

change_contact(args, b) ==
    LET name == args[1]
        old_phone == args[2]
        new_phone == args[3]
    IN
    IF ~exists(b, name) THEN Return("Contact not found.", <<>>, b)
    ELSE
    LET i == find(b, name).index IN
    IF ~phone_exists(b[i], old_phone)
    THEN Return("The old phone number was not found for this contact.",
                <<>>, b)
    ELSE IF phone_exists(b[i], new_phone)
    THEN Return("The new phone number already exists for this contact.",
                <<>>, b)
    ELSE LET edited == edit_phone(b[i], old_phone, new_phone) IN
         IF edited.raised # ""
         THEN Raise(edited.raised, [b EXCEPT ![i] = edited.rec])
         ELSE Return("The phone was updated.", <<old_phone, new_phone, name>>,
                     [b EXCEPT ![i] = edited.rec])

\* command_funcs.add_birthday (Record.add_birthday is add_birthday above)
cmd_add_birthday(args, b) ==
    LET name == args[1]
        date == args[2]
    IN
    IF ~exists(b, name) THEN Return("Contact not found.", <<>>, b)
    ELSE LET i == find(b, name).index
             added == add_birthday(b[i], date)
         IN
         IF added.raised # ""
         THEN Raise(added.raised, [b EXCEPT ![i] = added.rec])
         ELSE Return("Birthday is added.", <<name>>,
                     [b EXCEPT ![i] = added.rec])

show_birthday(args, b) ==
    LET name == args[1] IN
    IF ~exists(b, name) THEN Return("Contact not found.", <<>>, b)
    ELSE LET birthday == birthday_str(b[find(b, name).index]) IN
         IF birthday = None
         THEN Return("Birthday is not set for this contact.", <<>>, b)
         ELSE Return("birthday", birthday, b)

\* birthdays reads the clock through get_upcoming_birthdays.
birthdays(args, b, date_today) ==
    LET upcoming_birthdays == get_upcoming_birthdays(b, date_today) IN
    IF upcoming_birthdays.raised # ""
    THEN Raise(upcoming_birthdays.raised, b)
    ELSE IF Len(upcoming_birthdays.list) = 0
    THEN Return("No upcoming birthdays found.", <<>>, b)
    ELSE Return("upcoming", upcoming_birthdays.list, b)

(***************************************************************************)
(* contacts_assistance_bot/commands_manager.py                             *)
(***************************************************************************)
CmdHello == <<"h", "e", "l", "l", "o">>
CmdAdd == <<"a", "d", "d">>
CmdChange == <<"c", "h", "a", "n", "g", "e">>
CmdPhone == <<"p", "h", "o", "n", "e">>
CmdAll == <<"a", "l", "l">>
CmdAddBirthday == <<"a", "d", "d", "-", "b", "i", "r", "t", "h", "d", "a", "y">>
CmdShowBirthday == <<"s", "h", "o", "w", "-", "b", "i", "r", "t", "h", "d", "a", "y">>
CmdBirthdays == <<"b", "i", "r", "t", "h", "d", "a", "y", "s">>
CmdClose == <<"c", "l", "o", "s", "e">>
CmdExit == <<"e", "x", "i", "t">>

\* self.__commands: the command names
CommandNames ==
    {CmdHello, CmdAdd, CmdChange, CmdPhone, CmdAll, CmdAddBirthday,
     CmdShowBirthday, CmdBirthdays}

\* self.__commands: len(command_required_args)
RequiredArgs(command_name) ==
    CASE command_name \in {CmdHello, CmdAll, CmdBirthdays} -> 0
      [] command_name \in {CmdPhone, CmdShowBirthday} -> 1
      [] command_name \in {CmdAdd, CmdAddBirthday} -> 2
      [] command_name = CmdChange -> 3

\* self.__commands: command_func(args, self.__book)
CommandFunc(command_name, args, b, date_today) ==
    CASE command_name = CmdHello -> hello(args, b)
      [] command_name = CmdAdd -> add_contact(args, b)
      [] command_name = CmdChange -> change_contact(args, b)
      [] command_name = CmdPhone -> show_phone(args, b)
      [] command_name = CmdAll -> get_all(args, b)
      [] command_name = CmdAddBirthday -> cmd_add_birthday(args, b)
      [] command_name = CmdShowBirthday -> show_birthday(args, b)
      [] command_name = CmdBirthdays -> birthdays(args, b, date_today)

\* CommandsManager.__parse_input: ValueError on a line without a token
Unpacked(tokens) ==
    IF Len(tokens) = 0
    THEN [raised |-> "ValueError", cmd |-> <<>>, args |-> <<>>]
    ELSE [raised |-> "", cmd |-> Lower(tokens[1]), args |-> Tail(tokens)]

parse_input(user_input) == Unpacked(Split(user_input))

\* Mutant of Caught: without the bare except, so that only ValidationError
\* is caught.
Caught_NoCatchAll(r) ==
    IF r.raised = "" THEN r
    ELSE IF r.raised = "ValidationError"
    THEN [raised |-> "", msg |-> "Invalid argument: ", data |-> <<>>,
          book |-> r.book]
    ELSE r

\* The except clauses of __execute, applied to what command_func did.
Caught(r) ==
    IF r.raised = "" THEN r
    ELSE IF r.raised = "ValidationError"
    THEN [raised |-> "", msg |-> "Invalid argument: ", data |-> <<>>,
          book |-> r.book]
    ELSE [raised |-> "", msg |-> "An unexpected error occurred.",
          data |-> <<>>, book |-> r.book]

\* CommandsManager.__execute
execute(command_name, args, b, date_today) ==
    IF command_name \notin CommandNames
    THEN [raised |-> "", msg |-> "Invalid command.", data |-> <<>>,
          book |-> b]
    ELSE IF Len(args) # RequiredArgs(command_name)
    THEN [raised |-> "", msg |-> "Invalid arguments.",
          data |-> <<command_name>>, book |-> b]
    ELSE Caught(CommandFunc(command_name, args, b, date_today))

\* print(self.__execute(command, args)): an exception that leaves __execute
\* is not caught by the loop (only KeyboardInterrupt is) and ends it.
Printed(r) ==
    IF r.raised # ""
    THEN [pc |-> "crashed", msg |-> r.raised, data |-> <<>>, book |-> r.book]
    ELSE [pc |-> "input", msg |-> r.msg, data |-> r.data, book |-> r.book]

\* The body of the while loop after __parse_input.
Parsed(parsed, b, date_today) ==
    IF parsed.raised = "ValueError"
    THEN [pc |-> "input", msg |-> "Empty input. Please enter a command.",
          data |-> <<>>, book |-> b]
    ELSE IF parsed.cmd \in {CmdClose, CmdExit}
    THEN [pc |-> "stopped", msg |-> "Good bye!", data |-> <<>>, book |-> b]
    ELSE Printed(execute(parsed.cmd, parsed.args, b, date_today))

\* One pass of the while loop of loop_user_input on the line user_input:
\* what is printed, the book afterwards and where the loop goes.
loop_user_input(user_input, b, date_today) ==
    Parsed(parse_input(user_input), b, date_today)

(***************************************************************************)
(* Inputs.                                                                 *)
(***************************************************************************)
Phone1 == <<"0", "1", "2", "3", "4", "5", "6", "7", "8", "9">>
Phone2 == <<"0", "9", "8", "7", "6", "5", "4", "3", "2", "1">>
Phone3 == <<"5", "5", "5", "5", "5", "5", "5", "5", "5", "5">>
PhoneShort == <<"1", "2", "3", "4", "5">>
PhoneLong == <<"0", "1", "2", "3", "4", "5", "6", "7", "8", "9", "0">>
PhoneLetter == <<"0", "1", "2", "3", "4", "5", "6", "7", "8", "x">>

ValidPhones == {Phone1, Phone2, Phone3}
PhoneInputs == ValidPhones \cup {PhoneShort, PhoneLong, PhoneLetter}

\* "29.02.2000", "01.01.1999", "1.1.1999", "15.06.1985", "31.02.2000",
\* "29.02.2001" and "2000-02-29"
DateLeapDay == <<"2", "9", ".", "0", "2", ".", "2", "0", "0", "0">>
DateNewYear == <<"0", "1", ".", "0", "1", ".", "1", "9", "9", "9">>
DateNewYearShort == <<"1", ".", "1", ".", "1", "9", "9", "9">>
DateJune == <<"1", "5", ".", "0", "6", ".", "1", "9", "8", "5">>
DateFeb31 == <<"3", "1", ".", "0", "2", ".", "2", "0", "0", "0">>
DateNoLeapDay == <<"2", "9", ".", "0", "2", ".", "2", "0", "0", "1">>
DateIso == <<"2", "0", "0", "0", "-", "0", "2", "-", "2", "9">>

ValidDates == {DateLeapDay, DateNewYear, DateNewYearShort, DateJune}
DateInputs == ValidDates \cup {DateFeb31, DateNoLeapDay, DateIso}

Carl == <<"C", "a", "r", "l">>
Bob == <<"B", "o", "b">>
Names == {Carl, Bob}

FirstDay == MkDate(FirstYear, 1, 1)
LastDay == MkDate(FirstYear + NumYears - 1, 12, 31)

NoCall == [op |-> "none", args |-> <<>>, raised |-> ""]
NoOutput == [msg |-> "", data |-> <<>>]

\* Midnight passes: datetime.today() gives the next date.
Tick(last) ==
    /\ ToOrdinal(today) < ToOrdinal(last)
    /\ today' = NextDay(today)
    /\ upcoming' = None
    /\ call' = NoCall
    /\ UNCHANGED <<rec, book, pc, line, out>>

(***************************************************************************)
(* SpecRecord: one Record used directly through its methods.               *)
(***************************************************************************)
InitRecord ==
    /\ rec = NewRecord(Carl)
    /\ call = NoCall
    /\ book = <<>>
    /\ today = FirstDay
    /\ upcoming = None
    /\ pc = "input"
    /\ line = <<>>
    /\ out = NoOutput

RecordCall(op, args, result) ==
    /\ rec' = result.rec
    /\ call' = [op |-> op, args |-> args, raised |-> result.raised]
    /\ UNCHANGED <<book, today, upcoming, pc, line, out>>

RecAddPhone ==
    \E p \in PhoneInputs : RecordCall("add_phone", <<p>>, add_phone(rec, p))

RecRemovePhone ==
    \E p \in PhoneInputs :
        RecordCall("remove_phone", <<p>>, remove_phone(rec, p))

RecEditPhone ==
    \E o \in PhoneInputs, n \in PhoneInputs :
        RecordCall("edit_phone", <<o, n>>, edit_phone(rec, o, n))

RecAddBirthday ==
    \E d \in DateInputs :
        RecordCall("add_birthday", <<d>>, add_birthday(rec, d))

NextRecord == RecAddPhone \/ RecRemovePhone \/ RecEditPhone \/ RecAddBirthday

SpecRecord == InitRecord /\ [][NextRecord]_vars

(***************************************************************************)
(* Spec: the program.  main() seeds the book and runs the command loop on  *)
(* the lines the operator types.                                           *)
(***************************************************************************)
\* What faker may draw for a seeded record.
SeedDraws ==
    [name : Names, phone : {Phone1, Phone2},
     date : {None, <<DateLeapDay>>, <<DateNewYear>>}]

\* The session starts on the last day of FirstYear.
SessionStart == MkDate(FirstYear, 12, 31)
SessionEnd == AddDays(SessionStart, MaxSessionDays)

Words(tokens) == JoinWith(tokens, <<" ">>)

CmdPhones == {Phone1, Phone2, PhoneShort}
CmdDates == {DateLeapDay, DateNewYearShort, DateFeb31, DateIso}
CmdPhonePairs ==
    {<<Phone1, Phone2>>, <<Phone2, Phone1>>, <<Phone1, Phone1>>,
     <<Phone1, PhoneShort>>, <<PhoneShort, Phone1>>}

\* The lines typed: empty and blank ones, every command alone, commands in
\* capitals, an unknown command, and commands with arguments.
InputLines ==
    {<<>>, <<" ", " ">>, <<" ", "h", "e", "l", "l", "o", " ">>, <<"E", "X", "I", "T">>, <<"f", "o", "o">>, <<"c", "l", "o", "s", "e", " ", "n", "o", "w">>,
     <<"h", "e", "l", "l", "o", " ", "t", "h", "e", "r", "e">>, Words(<<<<"A", "D", "D">>, Carl, Phone1>>)}
    \cup CommandNames \cup {CmdClose, CmdExit}
    \cup {Words(<<c, n>>) : c \in {CmdPhone, CmdShowBirthday}, n \in Names}
    \cup {Words(<<CmdAdd, n, p>>) : n \in Names, p \in CmdPhones}
    \cup {Words(<<CmdAddBirthday, n, d>>) : n \in Names, d \in CmdDates}
    \cup {Words(<<CmdChange, n, q[1], q[2]>>) : n \in Names,
                                                q \in CmdPhonePairs}

Init ==
    /\ \E draws \in [1..SeedCount -> SeedDraws] :
           book = add_faked_records(<<>>, SeedCount, draws)
    /\ today = SessionStart
    /\ pc = "input"
    /\ line = <<>>
    /\ out = [msg |-> "Welcome to the assistant bot!", data |-> <<>>]
    /\ upcoming = None
    /\ call = NoCall
    /\ rec = NewRecord(Carl)

Handled(r) ==
    /\ out' = [msg |-> r.msg, data |-> r.data]
    /\ book' = r.book
    /\ pc' = r.pc

\* input() returns a line; the loop handles it and prints.
ReadLine ==
    /\ pc = "input"
    /\ \E user_input \in InputLines :
        /\ line' = user_input
        /\ Handled(loop_user_input(user_input, book, today))
    /\ UNCHANGED <<rec, call, today, upcoming>>

\* KeyboardInterrupt while the loop waits in input()
Interrupt ==
    /\ pc = "input"
    /\ pc' = "stopped"
    /\ line' = <<>>
    /\ out' = [msg |-> "exiting...", data |-> <<>>]
    /\ UNCHANGED <<rec, call, book, today, upcoming>>

TickSession == pc = "input" /\ Tick(SessionEnd)

Next == ReadLine \/ Interrupt \/ TickSession

Spec == Init /\ [][Next]_vars

(***************************************************************************)
(* Claims about one Record (SpecRecord).                                   *)
(***************************************************************************)
NoDuplicates(phones) ==
    \A i \in 1..Len(phones), j \in 1..Len(phones) :
        phones[i] = phones[j] => i = j

\* C1: whatever add_phone, remove_phone and edit_phone calls were made, with
\* whatever arguments and outcome, no two entries of the record's phone list
\* have the same value.
C1_PhonesDistinct == NoDuplicates(rec.phones)

\* A record with two phones on which a call has just failed.
C1_Witness ==
    /\ Len(rec.phones) >= 2
    /\ call.op \in {"add_phone", "edit_phone"}
    /\ call.raised = "ValueError"

\* C6: a failing add_phone or edit_phone call (duplicate, missing old phone,
\* value that is not 10 digits) leaves the phone list as it was, values and
\* order.
C6_FailureKeepsPhones ==
    [][(call'.op \in {"add_phone", "edit_phone"} /\ call'.raised # "")
        => rec'.phones = rec.phones]_vars

\* edit_phone of a present phone to a value that is not 10 digits has failed
\* in the Phone setter.
C6_Witness ==
    /\ call.op = "edit_phone"
    /\ call.raised = "ValidationError"
    /\ \E i \in 1..Len(rec.phones) : rec.phones[i] = call.args[1]
    /\ Len(rec.phones) >= 2

\* C7: a successful edit_phone(old, new) changes exactly one entry: the one
\* that held old holds new at the same position, the length is unchanged and
\* every other entry keeps its value and position.
C7_EditInPlace ==
    [][(call'.op = "edit_phone" /\ call'.raised = "")
        => /\ Len(rec'.phones) = Len(rec.phones)
           /\ \E i \in 1..Len(rec.phones) :
                /\ rec.phones[i] = call'.args[1]
                /\ rec'.phones[i] = call'.args[2]
                /\ \A j \in 1..Len(rec.phones) :
                     j # i => rec'.phones[j] = rec.phones[j]]_vars

\* A successful edit of the first of two phones.
C7_Witness ==
    /\ call.op = "edit_phone"
    /\ call.raised = ""
    /\ Len(rec.phones) = 2
    /\ rec.phones[1] = call.args[2]

(***************************************************************************)
(* SpecBook: an AddressBook used directly through its methods while the    *)
(* calendar advances from FirstDay to LastDay.                             *)
(***************************************************************************)
InitBook ==
    /\ book = <<>>
    /\ today = FirstDay
    /\ upcoming = None
    /\ call = NoCall
    /\ rec = NewRecord(Carl)
    /\ pc = "input"
    /\ line = <<>>
    /\ out = NoOutput

\* book.add_record(Record(name))
BookAddRecord ==
    \E n \in Names :
        /\ book' = add_record(book, NewRecord(n))
        /\ upcoming' = None
        /\ call' = NoCall
        /\ UNCHANGED <<rec, today, pc, line, out>>

\* book.find(name).add_birthday(text)
BookAddBirthday ==
    \E n \in Names, d \in DateInputs :
        LET found == find(book, n) IN
        /\ found.raised = ""
        /\ book' = [book EXCEPT
                      ![found.index] = add_birthday(book[found.index], d).rec]
        /\ upcoming' = None
        /\ call' = NoCall
        /\ UNCHANGED <<rec, today, pc, line, out>>

\* book.delete(name)
BookDelete ==
    \E n \in Names :
        /\ book' = delete(book, n).book
        /\ book' # book
        /\ upcoming' = None
        /\ call' = NoCall
        /\ UNCHANGED <<rec, today, pc, line, out>>

\* book.get_upcoming_birthdays(); upcoming holds what the call gave.
BookUpcoming ==
    /\ upcoming' = <<get_upcoming_birthdays(book, today)>>
    /\ call' = [op |-> "get_upcoming_birthdays", args |-> <<>>,
                raised |-> upcoming'[1].raised]
    /\ UNCHANGED <<rec, book, today, pc, line, out>>

TickYear == Tick(LastDay)

NextBook ==
    BookAddRecord \/ BookAddBirthday \/ BookDelete \/ BookUpcoming \/ TickYear

SpecBook == InitBook /\ [][NextBook]_vars

(***************************************************************************)
(* Claims about get_upcoming_birthdays (SpecBook).                         *)
(***************************************************************************)
HasBirthday(r) == r.birthday # None

\* The record's birthday can be placed in today's year.
Placeable(r) == ValidDate(today.year, r.birthday[1].month, r.birthday[1].day)

Placed(r) == MkDate(today.year, r.birthday[1].month, r.birthday[1].day)

Included(r) ==
    \E k \in 1..Len(upcoming[1].list) : upcoming[1].list[k].name = r.name

Due(r) ==
    /\ 0 <= DaysDiff(Placed(r), today)
    /\ DaysDiff(Placed(r), today) <= 7

\* C2: after a query, every record with a birthday is in the result exactly
\* when (its day and month in today's year) - today is from 0 to 7 days, and
\* a record without a birthday is never in it.
C2_IncludedIffDue ==
    upcoming # None =>
        \A i \in 1..Len(book) :
            /\ ~HasBirthday(book[i]) => ~Included(book[i])
            /\ (HasBirthday(book[i]) /\ Placeable(book[i]))
                => (Included(book[i]) <=> Due(book[i]))

\* Some date from today to today + 7 has the birthday's day and month.
OccursWithinWeek(r) ==
    \E k \in 0..7 :
        /\ AddDays(today, k).month = r.birthday[1].month
        /\ AddDays(today, k).day = r.birthday[1].day

\* C3: a query that returns has a record in its result exactly when the next
\* occurrence of the birthday's day and month is from today to today + 7.
C3_IncludedIffNextOccurrenceWithinWeek ==
    (upcoming # None /\ upcoming[1].raised = "") =>
        \A i \in 1..Len(book) :
            HasBirthday(book[i])
                => (Included(book[i]) <=> OccursWithinWeek(book[i]))

RecordNamed(name) == book[KeyIndex(book, name)]

ExpectedCongratulation(r) ==
    CASE Weekday(Placed(r)) = 5 -> AddDays(Placed(r), 2)
      [] Weekday(Placed(r)) = 6 -> AddDays(Placed(r), 1)
      [] OTHER -> Placed(r)

\* C4: every entry of a result has as congratulation_date the birthday in
\* today's year, moved by 2 days from a Saturday and by 1 day from a Sunday,
\* so never a Saturday or Sunday, and as actual_date the record's own
\* birthday text with its original year.
C4_WeekendShift ==
    upcoming # None =>
        \A k \in 1..Len(upcoming[1].list) :
            LET e == upcoming[1].list[k]
                r == RecordNamed(e.name)
            IN
            /\ e.congratulation_date = Strftime(ExpectedCongratulation(r))
            /\ Strptime(e.congratulation_date).raised = ""
            /\ Weekday(Strptime(e.congratulation_date).value) \notin {5, 6}
            /\ e.actual_date = Strftime(r.birthday[1])
            /\ Strptime(e.actual_date).value = r.birthday[1]

\* A result with an entry whose birthday falls on a Saturday this year.
C4_Witness ==
    /\ upcoming # None
    /\ \E k \in 1..Len(upcoming[1].list) :
         Weekday(Placed(RecordNamed(upcoming[1].list[k].name))) = 5

IsLeapDay(r) ==
    HasBirthday(r) /\ r.birthday[1].month = 2 /\ r.birthday[1].day = 29

\* C5: in a year that is not a leap year, a query on a book that holds a
\* 29.02 birthday returns, and its result holds every other record that is
\* due.
C5_LeapDayHandled ==
    (upcoming # None /\ ~IsLeap(today.year)
        /\ \E i \in 1..Len(book) : IsLeapDay(book[i]))
    => /\ upcoming[1].raised = ""
       /\ \A i \in 1..Len(book) :
            (HasBirthday(book[i]) /\ ~IsLeapDay(book[i]) /\ Due(book[i]))
                => Included(book[i])

(***************************************************************************)
(* Claims about the commands and the command loop (Spec).                  *)
(***************************************************************************)
Tokens(l) == Split(l)

\* The line l is the command c (in any case) with n arguments.
IsCommand(l, c, n) ==
    /\ Len(Tokens(l)) = n + 1
    /\ Lower(Tokens(l)[1]) = c

PhonesOf(b, name) == b[KeyIndex(b, name)].phones

TenDigits(p) == Len(p) = 10 /\ \A i \in 1..10 : p[i] \in Digits

\* C8: add with a name and a 10-digit phone: for a name not in the book, the
\* book then holds the name with exactly that phone and the answer is that a
\* new contact is added; for a name that already has the phone, the answer
\* is that the phone already exists and the book is unchanged; and adding
\* the same once more leaves the book as it is.
C8_AddContact ==
    [][(pc = "input" /\ today' = today /\ IsCommand(line', CmdAdd, 2)
            /\ TenDigits(Tokens(line')[3]))
        => LET name == Tokens(line')[2]
               phone == Tokens(line')[3]
           IN
           /\ ~exists(book, name)
                => /\ exists(book', name)
                   /\ PhonesOf(book', name) = <<phone>>
                   /\ out'.msg = "A new contact is added."
           /\ (exists(book, name)
                 /\ \E i \in 1..Len(PhonesOf(book, name)) :
                        PhonesOf(book, name)[i] = phone)
                => /\ out'.msg
                        = "The phone number already exists for this contact."
                   /\ book' = book
           /\ add_contact(<<name, phone>>, book').book = book'
           /\ add_contact(<<name, phone>>, book').msg
                = "The phone number already exists for this contact."]_vars

\* The second add of the same phone for a contact that holds only it.
C8_Witness ==
    /\ IsCommand(line, CmdAdd, 2)
    /\ out.msg = "The phone number already exists for this contact."
    /\ PhonesOf(book, Tokens(line)[2]) = <<Tokens(line)[3]>>

ErrorResponses ==
    {"Invalid command.", "Invalid arguments.", "Invalid argument: ",
     "An unexpected error occurred.", "Contact not found.",
     "The old phone number was not found for this contact.",
     "The new phone number already exists for this contact.",
     "The phone number already exists for this contact."}

\* C9: a command that is answered with an error response leaves the book as
\* it was: the same names, phone lists and birthdays.
C9_ErrorKeepsBook ==
    [][(pc = "input" /\ out'.msg \in ErrorResponses) => book' = book]_vars

\* add with a phone that is not 10 digits for a name that is not in the
\* book has been answered with "Invalid argument".
C9_Witness ==
    /\ IsCommand(line, CmdAdd, 2)
    /\ out.msg = "Invalid argument: "
    /\ ~exists(book, Tokens(line)[2])

\* C10: the loop leaves the state of reading only by stopping, and it stops
\* only on an interruption or after a line whose command is close or exit;
\* after every other line it has printed a response and reads on.
C10_LoopStopsOnlyOnExit ==
    [][pc = "input" =>
        /\ pc' \in {"input", "stopped"}
        /\ pc' = "stopped" =>
             \/ out'.msg = "exiting..."
             \/ /\ Len(Tokens(line')) > 0
                /\ Lower(Tokens(line')[1]) \in {CmdClose, CmdExit}
                /\ out'.msg = "Good bye!"
        /\ (Len(Tokens(line')) > 0
              /\ Lower(Tokens(line')[1]) \notin {CmdClose, CmdExit})
             => (pc' = "input" /\ out'.msg # "")
        /\ (Len(Tokens(line')) = 0 /\ pc' = "input")
             => out'.msg \in {"Empty input. Please enter a command.",
                               "Welcome to the assistant bot!"}]_vars

\* The loop reads on after a command failed with an error that is no
\* ValidationError.
C10_Witness ==
    /\ pc = "input"
    /\ out.msg = "An unexpected error occurred."
    /\ IsCommand(line, CmdBirthdays, 0)

=============================================================================
